---- MODULE Spec2Model ----
(***************************************************************************)
(* Model of reearthx: the mongox Collection facade (src/unnamed/part_000)  *)
(* driven by one sequential caller against an abstract document-store      *)
(* driver, with the ambient context's cancellation as an environment step. *)
(***************************************************************************)
EXTENDS Integers, Sequences, FiniteSets, TLC

\* ---------------------------------------------------------------- bounds
\* Number of distinct document identifiers the store may hold.
NumIds == 2
\* Longest ids / updates slice handed to SaveAll.
MaxLen == 2

Ids == 1..NumIds
\* Replacement documents (the `updates` of SaveAll), opaque values.
Bodies == {"u1", "u2"}
Absent == "absent"

\* ---------------------------------------------------------------- errors
\* An error value is a record: its kind, the kind of the error it wraps
\* (errors.Is / errors.Unwrap follow `cause`).
E(k) == [kind |-> k, cause |-> "none"]
Nil == E("nil")
EOF == E("io.EOF")
\* A consumer error that wraps io.EOF (fmt.Errorf("...: %w", io.EOF)).
WrappedEOF == [kind |-> "wrapped", cause |-> "io.EOF"]
ErrA == E("consumerErrA")
ErrB == E("consumerErrB")
ErrNilDocument == E("mongo.ErrNilDocument")
ErrNoDocuments == E("mongo.ErrNoDocuments")
DrvErr == E("driver.Error")
DrvConflict == E("driver.TransientTransactionError")
DrvUnacknowledged == E("mongo.ErrUnacknowledgedWrite")
DrvEmptySlice == E("mongo.ErrEmptySlice")
CtxCanceled == E("context.Canceled")
ErrInvalidSaveArgs == E("invalid save args")
ErrNotFound == E("rerror.ErrNotFound")
ErrTransaction == E("usecasex.ErrTransaction")
Pending == E("pending")

\* errors.Is(err, target): err is target or wraps it.
ErrorsIs(err, target) == err = target \/ (err.kind = "wrapped" /\ err.cause = target.kind)

\* rerror.ErrInternalBy(err): Internal, the original cause retained.
ErrInternalBy(err) == [kind |-> "rerror.ErrInternal", cause |-> err.kind]

\* IsTransactionError(err): the failure carries a store conflict marker.
IsTransactionError(err) == err = DrvConflict

\* Fault variant: the driver's error is handed on as it is.
wrapError_Raw(err) == err

\* Lines 211-216: the error classifier.
wrapError(err) == IF IsTransactionError(err) THEN ErrTransaction ELSE ErrInternalBy(err)

\* What a Consumer callback may return.
ConsumerResults == {Nil, EOF, WrappedEOF, ErrA, ErrB}

\* ---------------------------------------------------------------- state
VARIABLES
    coll,      \* the store: id -> replacement document or Absent
    op,        \* the Collection method of the current / last call
    pc,        \* "idle" | "loop" (inside Find's for loop) | "done"
    ret,       \* the error returned by the call (Pending until it returns)
    ctxDone,   \* the ambient context of the call has been cancelled
    cursor,    \* server-side cursor of Find: "none" | "open" | "closed"
    closes,    \* number of cursor.Close calls made by the call
    docs,      \* the documents the cursor yields, in driver order
    pos,       \* number of documents the cursor has yielded
    lastNext,  \* what the last cursor.Next step did
    calls,     \* the Consume calls made so far: [doc, res]
    args,      \* the arguments of the call
    batches,   \* the BulkWrite batches the call handed to the driver
    drv,       \* what the call's driver request returned: [res, err]
    collPre    \* the store when the call started

vars == <<coll, op, pc, ret, ctxDone, cursor, closes, docs, pos, lastNext,
          calls, args, batches, drv, collPre>>

findVars == <<cursor, closes, docs, pos, lastNext, calls>>
writeVars == <<batches, drv>>

NilDoc == [id |-> 0, body |-> "nil"]
Doc(i) == [id |-> i, body |-> coll[i]]
NoArgs == [filter |-> {}, ids |-> <<>>, updates |-> <<>>]
NoDrv == [res |-> [isNil |-> TRUE, DeletedCount |-> 0], err |-> Nil]

\* A filter is an opaque predicate: the set of ids it accepts.
Filters == SUBSET Ids
Matches(f) == {i \in f : coll[i] # Absent}

\* All orders in which the driver may stream a set of ids.
Orders(S) == {s \in [1..Cardinality(S) -> S] : \A i, j \in 1..Cardinality(S) : s[i] = s[j] => i = j}

Init ==
    /\ coll = [i \in Ids |-> Absent]
    /\ op = "none"
    /\ pc = "idle"
    /\ ret = Pending
    /\ ctxDone = FALSE
    /\ cursor = "none"
    /\ closes = 0
    /\ docs = <<>>
    /\ pos = 0
    /\ lastNext = "none"
    /\ calls = <<>>
    /\ args = NoArgs
    /\ batches = <<>>
    /\ drv = NoDrv
    /\ collPre = [i \in Ids |-> Absent]

\* The caller starts a call: fresh per-call state.
Begin(o, a) ==
    /\ pc = "idle"
    /\ op' = o
    /\ args' = a
    /\ collPre' = coll

\* ---------------------------------------------------------------- Find
\* A return of Find before the cursor exists (lines 36-41).
FindFail(e) ==
    /\ ret' = e
    /\ pc' = "done"
    /\ UNCHANGED <<cursor, closes>>

\* Fault variant: a return that skips the deferred cursor.Close.
FindReturn_NoClose(e) ==
    /\ ret' = e
    /\ pc' = "done"
    /\ UNCHANGED <<cursor, closes>>

\* A return of Find after the defer was registered: cursor.Close runs.
FindReturn(e) ==
    /\ ret' = e
    /\ pc' = "done"
    /\ cursor' = "closed"
    /\ closes' = closes + 1

\* Errors c.client.Find may return when opening the cursor.
OpenErrors == {Nil, ErrNilDocument, ErrNoDocuments, DrvErr, DrvConflict} \cup
              (IF ctxDone THEN {CtxCanceled} ELSE {})

FindOpen ==
    \E f \in Filters, err \in OpenErrors :
        /\ Begin("Find", [NoArgs EXCEPT !.filter = f])
        /\ IF ErrorsIs(err, ErrNilDocument) \/ ErrorsIs(err, ErrNoDocuments)
           THEN FindFail(ErrNotFound) /\ docs' = <<>>
           ELSE IF err # Nil
           THEN FindFail(wrapError(err)) /\ docs' = <<>>
           ELSE /\ \E s \in Orders(Matches(f)) : docs' = [k \in 1..Len(s) |-> Doc(s[k])]
                /\ cursor' = "open"
                /\ pc' = "loop"
                /\ UNCHANGED <<ret, closes>>
        /\ drv' = [res |-> [isNil |-> err # Nil, DeletedCount |-> 0], err |-> err]
        /\ UNCHANGED <<coll, ctxDone, pos, lastNext, calls, batches>>

\* What the driver's cursor.Next(ctx) / cursor.Err() pair may report.
NextOutcomes ==
    (IF pos < Len(docs) THEN {[more |-> TRUE, err |-> Nil, how |-> "doc"]}
     ELSE {[more |-> FALSE, err |-> Nil, how |-> "end"],
           [more |-> FALSE, err |-> EOF, how |-> "end"]})
    \cup {[more |-> FALSE, err |-> DrvErr, how |-> "err"],
          [more |-> FALSE, err |-> DrvConflict, how |-> "err"]}
    \cup (IF ctxDone THEN {[more |-> FALSE, err |-> CtxCanceled, how |-> "cancel"]} ELSE {})

\* Fault variant: the !c branch tested before cursor.Err().
AfterNext_MoreFirst(more, err) ==
    IF ~more THEN "terminal"
    ELSE IF err # Nil /\ ~ErrorsIs(err, EOF) THEN "fail"
    ELSE "deliver"

\* Lines 47-59: what the loop body does with the outcome of cursor.Next.
AfterNext(more, err) ==
    IF err # Nil /\ ~ErrorsIs(err, EOF) THEN "fail"
    ELSE IF ~more THEN "terminal"
    ELSE "deliver"

\* Fault variant: the terminal call's io.EOF is not swallowed.
AfterTerminal_NoSwallow(r) == r

\* Lines 53-56, 63: Find's result after the terminal Consume(nil) returned r.
AfterTerminal(r) == IF r # Nil /\ ~ErrorsIs(r, EOF) THEN r ELSE Nil

\* Fault variant: the loop goes on after a failed Consume.
AfterDocument_Continue(r) == [stop |-> FALSE, ret |-> r]

\* Lines 59-61: after Consume(cursor.Current) returned r.
AfterDocument(r) == [stop |-> r # Nil, ret |-> r]

\* One iteration of Find's for loop.
FindLoop ==
    /\ pc = "loop"
    /\ op = "Find"
    /\ \E nx \in NextOutcomes, r \in ConsumerResults :
        /\ lastNext' = nx.how
        /\ pos' = IF nx.more THEN pos + 1 ELSE pos
        /\ CASE AfterNext(nx.more, nx.err) = "fail" ->
                  /\ FindReturn(wrapError(nx.err))
                  /\ calls' = calls
             [] AfterNext(nx.more, nx.err) = "terminal" ->
                  /\ calls' = Append(calls, [doc |-> NilDoc, res |-> r])
                  /\ FindReturn(AfterTerminal(r))
             [] OTHER ->
                  /\ calls' = Append(calls, [doc |-> IF pos < Len(docs) THEN docs[pos + 1] ELSE NilDoc,
                                             res |-> r])
                  /\ IF AfterDocument(r).stop
                     THEN FindReturn(AfterDocument(r).ret)
                     ELSE UNCHANGED <<ret, pc, cursor, closes>>
    /\ UNCHANGED <<coll, op, ctxDone, docs, args, writeVars, collPre>>

\* ---------------------------------------------------------------- FindOne
\* What c.client.FindOne(ctx, filter).DecodeBytes() may return: a matching
\* document, ErrNoDocuments when nothing matches, or a driver failure.
FindOneOutcomes(f) ==
    (IF Matches(f) = {} THEN {[raw |-> NilDoc, err |-> ErrNoDocuments]}
     ELSE {[raw |-> Doc(i), err |-> Nil] : i \in Matches(f)})
    \cup {[raw |-> NilDoc, err |-> e] : e \in {ErrNilDocument, DrvErr, DrvConflict}}
    \cup (IF ctxDone THEN {[raw |-> NilDoc, err |-> CtxCanceled]} ELSE {})

\* Fault variant: the no-document sentinels are not mapped to NotFound.
FindOneDecode_NoNotFound(err) ==
    IF err = Nil THEN Nil ELSE wrapError(err)

\* Lines 68-73: the result of the fetch, Nil when a document was decoded.
FindOneDecode(err) ==
    IF err = Nil THEN Nil
    ELSE IF ErrorsIs(err, ErrNilDocument) \/ ErrorsIs(err, ErrNoDocuments) THEN ErrNotFound
    ELSE wrapError(err)

\* Fault variant: FindOne does not swallow io.EOF.
FindOneAfterConsume_NoSwallow(r) == r

\* Lines 74-77: FindOne's result after Consume(raw) returned r.
FindOneAfterConsume(r) == IF r # Nil /\ ~ErrorsIs(r, EOF) THEN r ELSE Nil

FindOne ==
    \E f \in Filters :
        /\ Begin("FindOne", [NoArgs EXCEPT !.filter = f])
        /\ \E o \in FindOneOutcomes(f), r \in ConsumerResults :
            /\ drv' = [res |-> [isNil |-> o.err # Nil, DeletedCount |-> 0], err |-> o.err]
            /\ IF FindOneDecode(o.err) # Nil
               THEN /\ ret' = FindOneDecode(o.err)
                    /\ calls' = calls
               ELSE /\ calls' = Append(calls, [doc |-> o.raw, res |-> r])
                    /\ ret' = FindOneAfterConsume(r)
        /\ pc' = "done"
        /\ UNCHANGED <<coll, ctxDone, cursor, closes, docs, pos, lastNext, batches>>

\* ---------------------------------------------------------------- SaveAll
SeqsUpTo(S, n) == UNION {[1..k -> S] : k \in 0..n}

\* Fault variant: only the out-of-range case (more updates than ids) is refused.
SaveAllCheck_IndexGuardOnly(ids, updates) ==
    IF Len(ids) = 0 \/ Len(updates) = 0 THEN "noop"
    ELSE IF Len(ids) < Len(updates) THEN "invalid"
    ELSE "write"

\* Fault variant: the no-op needs both slices empty.
SaveAllCheck_BothEmpty(ids, updates) ==
    IF Len(ids) = 0 /\ Len(updates) = 0 THEN "noop"
    ELSE IF Len(ids) # Len(updates) THEN "invalid"
    ELSE "write"

\* Lines 138-143: the argument checks of SaveAll.
SaveAllCheck(ids, updates) ==
    IF Len(ids) = 0 \/ Len(updates) = 0 THEN "noop"
    ELSE IF Len(ids) # Len(updates) THEN "invalid"
    ELSE "write"

\* Fault variant: every operation is filtered by the first id.
ReplaceOneModels_SameId(ids, updates) ==
    [i \in 1..Len(updates) |->
        [model |-> "ReplaceOne", filter |-> ids[1], replacement |-> updates[i], upsert |-> TRUE]]

\* Lines 145-152: one upsert-replace write model per update, in input order.
ReplaceOneModels(ids, updates) ==
    [i \in 1..Len(updates) |->
        [model |-> "ReplaceOne", filter |-> ids[i], replacement |-> updates[i], upsert |-> TRUE]]

\* The store after the driver applied one write model.
ApplyModel(c, m) ==
    IF m.model = "ReplaceOne" THEN [c EXCEPT ![m.filter] = m.replacement]
    ELSE [i \in Ids |-> IF i \in m.filter /\ c[i] # Absent THEN m.update.set ELSE c[i]]

\* The store after the driver applied the first k operations of a batch.
RECURSIVE ApplyBatch(_, _, _)
ApplyBatch(c, wm, k) ==
    IF k = 0 THEN c
    ELSE ApplyModel(ApplyBatch(c, wm, k - 1), wm[k])

\* What c.client.BulkWrite may do with an ordered batch: apply all of it and
\* succeed, or fail after applying a prefix of it, a cancelled context being
\* one of the failures; an empty batch is refused.
BulkWriteOutcomes(wm) ==
    IF Len(wm) = 0 THEN {[applied |-> 0, err |-> DrvEmptySlice]}
    ELSE {[applied |-> Len(wm), err |-> Nil]}
         \cup {[applied |-> k, err |-> e] :
                  k \in 0..Len(wm),
                  e \in {DrvErr, DrvConflict} \cup (IF ctxDone THEN {CtxCanceled} ELSE {})}

SaveAll ==
    \E ids \in SeqsUpTo(Ids, MaxLen), updates \in SeqsUpTo(Bodies, MaxLen) :
        /\ Begin("SaveAll", [NoArgs EXCEPT !.ids = ids, !.updates = updates])
        /\ CASE SaveAllCheck(ids, updates) = "noop" ->
                  /\ ret' = Nil
                  /\ UNCHANGED <<coll, batches, drv>>
             [] SaveAllCheck(ids, updates) = "invalid" ->
                  /\ ret' = wrapError(ErrInvalidSaveArgs)
                  /\ UNCHANGED <<coll, batches, drv>>
             [] OTHER ->
                  \E o \in BulkWriteOutcomes(ReplaceOneModels(ids, updates)) :
                      /\ batches' = Append(batches, ReplaceOneModels(ids, updates))
                      /\ coll' = ApplyBatch(coll, ReplaceOneModels(ids, updates), o.applied)
                      /\ drv' = [res |-> [isNil |-> o.err # Nil, DeletedCount |-> 0], err |-> o.err]
                      /\ ret' = IF o.err # Nil THEN wrapError(o.err) ELSE Nil
        /\ pc' = "done"
        /\ UNCHANGED <<ctxDone, findVars>>

\* ---------------------------------------------------------------- RemoveOne
\* What c.client.DeleteOne may do: delete one matching document, or none when
\* nothing matches, and report the count; or fail, with a nil result or (an
\* unacknowledged write) a result that counts nothing, the delete possibly done.
DeleteOneOutcomes(f) ==
    LET hit == {[del |-> {i}, n |-> 1] : i \in Matches(f)}
        done == IF Matches(f) = {} THEN {[del |-> {}, n |-> 0]} ELSE hit
        maybe == hit \cup {[del |-> {}, n |-> 0]}
    IN  {[del |-> d.del, res |-> [isNil |-> FALSE, DeletedCount |-> d.n], err |-> Nil] : d \in done}
        \cup {[del |-> d.del, res |-> [isNil |-> TRUE, DeletedCount |-> 0], err |-> e] :
                 d \in maybe, e \in {DrvErr, DrvConflict} \cup (IF ctxDone THEN {CtxCanceled} ELSE {})}
        \cup {[del |-> d.del, res |-> [isNil |-> FALSE, DeletedCount |-> 0], err |-> DrvUnacknowledged] :
                 d \in maybe}

\* Fault variant: DeletedCount is not inspected.
RemoveOneResult_NoCount(res, err) ==
    IF err # Nil THEN wrapError(err) ELSE Nil

\* Lines 98-104: RemoveOne's result from what DeleteOne returned.
RemoveOneResult(res, err) ==
    IF err # Nil THEN wrapError(err)
    ELSE IF ~res.isNil /\ res.DeletedCount = 0 THEN ErrNotFound
    ELSE Nil

RemoveOne ==
    \E f \in Filters :
        /\ Begin("RemoveOne", [NoArgs EXCEPT !.filter = f])
        /\ \E o \in DeleteOneOutcomes(f) :
            /\ coll' = [i \in Ids |-> IF i \in o.del THEN Absent ELSE coll[i]]
            /\ drv' = [res |-> o.res, err |-> o.err]
            /\ ret' = RemoveOneResult(o.res, o.err)
        /\ pc' = "done"
        /\ UNCHANGED <<ctxDone, findVars, batches>>

\* The ambient context is cancelled while a Find is iterating.
Cancel ==
    /\ pc = "loop"
    /\ ~ctxDone
    /\ ctxDone' = TRUE
    /\ UNCHANGED <<coll, op, pc, ret, findVars, args, writeVars, collPre>>

\* The caller has its result; the next call starts from a fresh state.
Finish ==
    /\ pc = "done"
    /\ pc' = "idle"
    /\ op' = "none"
    /\ ret' = Pending
    /\ ctxDone' \in BOOLEAN
    /\ cursor' = "none"
    /\ closes' = 0
    /\ docs' = <<>>
    /\ pos' = 0
    /\ lastNext' = "none"
    /\ calls' = <<>>
    /\ args' = NoArgs
    /\ batches' = <<>>
    /\ drv' = NoDrv
    /\ collPre' = coll
    /\ UNCHANGED coll

\* ================================================================
\* The remaining Collection methods.
\* ================================================================
VARIABLES
    count   \* the int64 Count returned

collVars == <<vars, count>>

\* Driver failures of a plain request.
RequestErrors == {DrvErr, DrvConflict} \cup (IF ctxDone THEN {CtxCanceled} ELSE {})

\* Lines 80-86.
Count ==
    \E f \in Filters, err \in {Nil} \cup RequestErrors :
        /\ Begin("Count", [NoArgs EXCEPT !.filter = f])
        /\ drv' = [res |-> [isNil |-> err # Nil, DeletedCount |-> 0], err |-> err]
        /\ IF err # Nil
           THEN count' = 0 /\ ret' = wrapError(err)
           ELSE count' = Cardinality(Matches(f)) /\ ret' = Nil
        /\ pc' = "done"
        /\ UNCHANGED <<coll, ctxDone, findVars, batches>>

\* Lines 88-94; a failed DeleteMany may have deleted some of the matches.
RemoveAll ==
    \E f \in Filters, err \in {Nil} \cup RequestErrors :
        /\ Begin("RemoveAll", [NoArgs EXCEPT !.filter = f])
        /\ \E del \in (IF err = Nil THEN {Matches(f)} ELSE SUBSET Matches(f)) :
              coll' = [i \in Ids |-> IF i \in del THEN Absent ELSE coll[i]]
        /\ drv' = [res |-> [isNil |-> err # Nil, DeletedCount |-> 0], err |-> err]
        /\ ret' = IF err # Nil THEN wrapError(err) ELSE Nil
        /\ pc' = "done"
        /\ UNCHANGED <<ctxDone, findVars, batches, count>>

\* Lines 111-122: replace one match, or insert when nothing matches (upsert);
\* a failed request changes nothing.
ReplaceOneCall(name, f, replacement, a) ==
    /\ Begin(name, a)
    /\ \E err \in {Nil} \cup RequestErrors :
        /\ IF err # Nil THEN coll' = coll
           ELSE \E i \in (IF Matches(f) # {} THEN Matches(f) ELSE f) :
                    coll' = [coll EXCEPT ![i] = replacement]
        /\ drv' = [res |-> [isNil |-> err # Nil, DeletedCount |-> 0], err |-> err]
        /\ ret' = IF err # Nil THEN wrapError(err) ELSE Nil
    /\ pc' = "done"
    /\ UNCHANGED <<ctxDone, findVars, batches, count>>

ReplaceOne ==
    \E f \in Filters \ {{}}, b \in Bodies :
        ReplaceOneCall("ReplaceOne", f, b, [NoArgs EXCEPT !.filter = f, !.updates = <<b>>])

\* Lines 107-109: ReplaceOne with the filter {id: id}.
SaveOne ==
    \E id \in Ids, b \in Bodies :
        ReplaceOneCall("SaveOne", {id}, b, [NoArgs EXCEPT !.filter = {id}, !.ids = <<id>>, !.updates = <<b>>])

\* Lines 124-135: UpdateOne {$set: replacement} on {id: id}, with upsert.
SetOne ==
    \E id \in Ids, b \in Bodies, err \in {Nil} \cup RequestErrors :
        /\ Begin("SetOne", [NoArgs EXCEPT !.filter = {id}, !.ids = <<id>>, !.updates = <<b>>])
        /\ coll' = IF err # Nil THEN coll ELSE [coll EXCEPT ![id] = b]
        /\ drv' = [res |-> [isNil |-> err # Nil, DeletedCount |-> 0], err |-> err]
        /\ ret' = IF err # Nil THEN wrapError(err) ELSE Nil
        /\ pc' = "done"
        /\ UNCHANGED <<ctxDone, findVars, batches, count>>

\* Lines 161-169; a failed UpdateMany may have updated some of the matches.
UpdateMany ==
    \E f \in Filters, b \in Bodies, err \in {Nil} \cup RequestErrors :
        /\ Begin("UpdateMany", [NoArgs EXCEPT !.filter = f, !.updates = <<b>>])
        /\ \E upd \in (IF err = Nil THEN {Matches(f)} ELSE SUBSET Matches(f)) :
              coll' = [i \in Ids |-> IF i \in upd THEN b ELSE coll[i]]
        /\ drv' = [res |-> [isNil |-> err # Nil, DeletedCount |-> 0], err |-> err]
        /\ ret' = IF err # Nil THEN wrapError(err) ELSE Nil
        /\ pc' = "done"
        /\ UNCHANGED <<ctxDone, findVars, batches, count>>

\* Lines 171-175: the Update items a caller may hand to UpdateManyMany.
UpdateItems ==
    {[Filter |-> f, Update |-> b, ArrayFilters |-> a] :
        f \in {{1}, Ids}, b \in Bodies, a \in {<<>>, <<"elem">>}}

\* Fault variant: array filters are set on every model.
UpdateManyModels_AlwaysArrayFilters(updates) ==
    [i \in 1..Len(updates) |->
        [model |-> "UpdateMany", filter |-> updates[i].Filter, update |-> [set |-> updates[i].Update],
         hasArrayFilters |-> TRUE, arrayFilters |-> updates[i].ArrayFilters]]

\* Lines 178-189: one update-many write model per item, in input order, with
\* array filters only when the item has some.
UpdateManyModels(updates) ==
    [i \in 1..Len(updates) |->
        [model |-> "UpdateMany", filter |-> updates[i].Filter, update |-> [set |-> updates[i].Update],
         hasArrayFilters |-> Len(updates[i].ArrayFilters) > 0,
         arrayFilters |-> IF Len(updates[i].ArrayFilters) > 0 THEN updates[i].ArrayFilters ELSE <<>>]]

\* Lines 177-196.
UpdateManyMany ==
    \E updates \in SeqsUpTo(UpdateItems, MaxLen) :
        /\ Begin("UpdateManyMany", [NoArgs EXCEPT !.updates = updates])
        /\ \E o \in BulkWriteOutcomes(UpdateManyModels(updates)) :
            /\ batches' = Append(batches, UpdateManyModels(updates))
            /\ coll' = ApplyBatch(coll, UpdateManyModels(updates), o.applied)
            /\ drv' = [res |-> [isNil |-> o.err # Nil, DeletedCount |-> 0], err |-> o.err]
            /\ ret' = IF o.err # Nil THEN wrapError(o.err) ELSE Nil
        /\ pc' = "done"
        /\ UNCHANGED <<ctxDone, findVars, count>>

\* ================================================================
\* The in-memory user repository (accountmemory/user.go).
\* ================================================================
\* Number of distinct user identifiers.
NumUsers == 2

UserIDs == 1..NumUsers
NilRef == "<nil>"
\* The attributes a user may carry besides its identifier: name, email, the
\* credentials (subs) it holds, a pending verification code and a pending
\* password-reset token (NilRef when there is none).
Profiles ==
    {[name |-> "alice", email |-> "a@x", auths |-> {"sub1"}, verification |-> "c1", passwordReset |-> NilRef],
     [name |-> "bob", email |-> "b@x", auths |-> {"sub2"}, verification |-> NilRef, passwordReset |-> "t1"],
     [name |-> "a@x", email |-> "c@x", auths |-> {"sub1", "sub2"}, verification |-> NilRef, passwordReset |-> NilRef]}
MkUser(i, p) ==
    [id |-> i, name |-> p.name, email |-> p.email, auths |-> p.auths,
     verification |-> p.verification, passwordReset |-> p.passwordReset]
Users == {MkUser(i, p) : i \in UserIDs, p \in Profiles}
\* The nil *user.User.
NoUser == MkUser(0, [name |-> "", email |-> "", auths |-> {}, verification |-> NilRef, passwordReset |-> NilRef])
\* The strings a caller may search for.
Keys == {"", "alice", "a@x", "sub1", "sub2", "c1", "t1", "zzz"}

ErrInvalidParams == E("rerror.ErrInvalidParams")
ErrDuplicatedUser == E("accountrepo.ErrDuplicatedUser")
FaultA == E("injected fault A")
FaultB == E("injected fault B")

VARIABLES
    data,         \* r.data: user id -> stored user, NoUser when absent
    rerr,         \* r.err: the injected fault, Nil when none
    mcall,        \* the last repository call: its arguments and what it returned
    dataPre,      \* r.data when the last call started
    prevCreated   \* [sub, u] when the call before the last one was a FindBySubOrCreate
                  \* that found no user holding sub and stored u

memVars == <<data, rerr, mcall, dataPre, prevCreated>>

NoCall == [op |-> "none", u |-> NoUser, key |-> "", ids |-> {}, res |-> NoUser, list |-> {}, err |-> Nil]
NotCreated == [sub |-> "", u |-> NoUser]
EmptyData == [i \in UserIDs |-> NoUser]

\* Lines 24-30: the maps NewUserWith(users...) can build, each given user
\* stored under its own identifier.
SeededData ==
    {d \in [UserIDs -> Users \cup {NoUser}] : \A k \in UserIDs : d[k] # NoUser => d[k].id = k}

\* NewUser() or NewUserWith(users...): the map as built, no fault, no call yet.
InitMemory ==
    /\ data \in SeededData
    /\ rerr = Nil
    /\ mcall = NoCall
    /\ dataPre = data
    /\ prevCreated = NotCreated

\* NewUser(): the empty map.
InitMemoryEmpty == InitMemory /\ data = EmptyData

\* user.ContainAuth(user.AuthFrom(sub)): the user holds the credential.
ContainAuth(u, sub) == sub \in u.auths

\* SyncMap.Find: a stored value whose entry the predicate accepts (`accept`:
\* the keys whose entry it accepts), in the map's own (unspecified) scan
\* order; the nil user when there is none.
Find(d, accept) ==
    LET hits == {k \in accept : d[k] # NoUser}
    IN  IF hits = {} THEN {NoUser} ELSE {d[k] : k \in hits}

\* SyncMap.FindAll: every stored value whose entry the predicate accepts.
FindAll(d, accept) == {d[k] : k \in {k \in accept : d[k] # NoUser}}

\* rerror.ErrIfNil(v, err): v and no error, or nil and err when v is nil.
ErrIfNil(v, err) == [res |-> v, err |-> IF v = NoUser THEN err ELSE Nil]

\* What a repository method hands back: result, list result, error, new map.
Out(res, list, err, d) == [res |-> res, list |-> list, err |-> err, data |-> d]
Failed(err, d) == Out(NoUser, {}, err, d)
Lookup(d, found) == {Out(ErrIfNil(x, ErrNotFound).res, {}, ErrIfNil(x, ErrNotFound).err, d) : x \in found}

\* Lines 32-42.
FindByIDs(d, e, ids) ==
    IF e # Nil THEN {Failed(e, d)}
    ELSE {Out(NoUser, FindAll(d, {k \in UserIDs : k \in ids}), Nil, d)}

\* Lines 44-52.
FindByID(d, e, id) ==
    IF e # Nil THEN {Failed(e, d)}
    ELSE Lookup(d, Find(d, {k \in UserIDs : k = id}))

\* Fault variant: the key is validated before the injected fault is looked at.
FindBySub_ValidateFirst(d, e, auth0sub) ==
    IF auth0sub = "" THEN {Failed(ErrInvalidParams, d)}
    ELSE IF e # Nil THEN {Failed(e, d)}
    ELSE Lookup(d, Find(d, {k \in UserIDs : ContainAuth(d[k], auth0sub)}))

\* Lines 54-66.
FindBySub(d, e, auth0sub) ==
    IF e # Nil THEN {Failed(e, d)}
    ELSE IF auth0sub = "" THEN {Failed(ErrInvalidParams, d)}
    ELSE Lookup(d, Find(d, {k \in UserIDs : ContainAuth(d[k], auth0sub)}))

\* Lines 68-80.
FindByPasswordResetRequest(d, e, token) ==
    IF e # Nil THEN {Failed(e, d)}
    ELSE IF token = "" THEN {Failed(ErrInvalidParams, d)}
    ELSE Lookup(d, Find(d, {k \in UserIDs : d[k].passwordReset # NilRef /\ d[k].passwordReset = token}))

\* Lines 82-94.
FindByEmail(d, e, email) ==
    IF e # Nil THEN {Failed(e, d)}
    ELSE IF email = "" THEN {Failed(ErrInvalidParams, d)}
    ELSE Lookup(d, Find(d, {k \in UserIDs : d[k].email = email}))

\* Fault variant: a missing name yields the nil user and no error.
FindByName_NilNoError(d, e, name) ==
    IF e # Nil THEN {Failed(e, d)}
    ELSE IF name = "" THEN {Failed(ErrInvalidParams, d)}
    ELSE {Out(x, {}, Nil, d) : x \in Find(d, {k \in UserIDs : d[k].name = name})}

\* Lines 96-108.
FindByName(d, e, name) ==
    IF e # Nil THEN {Failed(e, d)}
    ELSE IF name = "" THEN {Failed(ErrInvalidParams, d)}
    ELSE Lookup(d, Find(d, {k \in UserIDs : d[k].name = name}))

\* Lines 110-122.
FindByNameOrEmail(d, e, nameOrEmail) ==
    IF e # Nil THEN {Failed(e, d)}
    ELSE IF nameOrEmail = "" THEN {Failed(ErrInvalidParams, d)}
    ELSE Lookup(d, Find(d, {k \in UserIDs : d[k].email = nameOrEmail \/ d[k].name = nameOrEmail}))

\* Lines 124-137.
FindByVerification(d, e, code) ==
    IF e # Nil THEN {Failed(e, d)}
    ELSE IF code = "" THEN {Failed(ErrInvalidParams, d)}
    ELSE Lookup(d, Find(d, {k \in UserIDs : d[k].verification # NilRef /\ d[k].verification = code}))

\* Fault variant: the candidate is stored whether or not a user was found.
FindBySubOrCreate_AlwaysStore(d, e, u, sub) ==
    IF e # Nil THEN {Failed(e, d)}
    ELSE {IF u2 = NoUser THEN Out(u, {}, Nil, [d EXCEPT ![u.id] = u])
          ELSE Out(u2, {}, Nil, [d EXCEPT ![u.id] = u]) :
              u2 \in Find(d, {k \in UserIDs : ContainAuth(d[k], sub)})}

\* Lines 139-152.
FindBySubOrCreate(d, e, u, sub) ==
    IF e # Nil THEN {Failed(e, d)}
    ELSE {IF u2 = NoUser THEN Out(u, {}, Nil, [d EXCEPT ![u.id] = u])
          ELSE Out(u2, {}, Nil, d) :
              u2 \in Find(d, {k \in UserIDs : ContainAuth(d[k], sub)})}

\* Fault variant: Create stores without looking for the identifier.
Create_Overwrite(d, e, u) ==
    IF e # Nil THEN {Failed(e, d)}
    ELSE {Failed(Nil, [d EXCEPT ![u.id] = u])}

\* Lines 154-166.
Create(d, e, u) ==
    IF e # Nil THEN {Failed(e, d)}
    ELSE IF d[u.id] = NoUser THEN {Failed(Nil, [d EXCEPT ![u.id] = u])}
    ELSE {Failed(ErrDuplicatedUser, d)}

\* Lines 168-175.
Save(d, e, u) ==
    IF e # Nil THEN {Failed(e, d)}
    ELSE {Failed(Nil, [d EXCEPT ![u.id] = u])}

\* Lines 177-184.
Remove(d, e, id) ==
    IF e # Nil THEN {Failed(e, d)}
    ELSE {Failed(Nil, [d EXCEPT ![id] = NoUser])}

\* One repository call by the single caller: the method runs to its return.
Called(name, u, key, ids, outs) ==
    \E o \in outs :
        /\ mcall' = [op |-> name, u |-> u, key |-> key, ids |-> ids,
                     res |-> o.res, list |-> o.list, err |-> o.err]
        /\ data' = o.data
        /\ dataPre' = data
        /\ prevCreated' = IF /\ mcall.op = "FindBySubOrCreate" /\ mcall.err = Nil
                             /\ \A k \in UserIDs : ~ContainAuth(dataPre[k], mcall.key)
                          THEN [sub |-> mcall.key, u |-> mcall.res] ELSE NotCreated
        /\ UNCHANGED rerr

CallFindByIDs == \E ids \in SUBSET UserIDs : Called("FindByIDs", NoUser, "", ids, FindByIDs(data, rerr, ids))
CallFindByID == \E id \in UserIDs : Called("FindByID", NoUser, "", {id}, FindByID(data, rerr, id))
CallFindBySub == \E k \in Keys : Called("FindBySub", NoUser, k, {}, FindBySub(data, rerr, k))
CallFindByPasswordResetRequest ==
    \E k \in Keys : Called("FindByPasswordResetRequest", NoUser, k, {}, FindByPasswordResetRequest(data, rerr, k))
CallFindByEmail == \E k \in Keys : Called("FindByEmail", NoUser, k, {}, FindByEmail(data, rerr, k))
CallFindByName == \E k \in Keys : Called("FindByName", NoUser, k, {}, FindByName(data, rerr, k))
CallFindByNameOrEmail ==
    \E k \in Keys : Called("FindByNameOrEmail", NoUser, k, {}, FindByNameOrEmail(data, rerr, k))
CallFindByVerification ==
    \E k \in Keys : Called("FindByVerification", NoUser, k, {}, FindByVerification(data, rerr, k))
CallFindBySubOrCreate ==
    \E u \in Users, k \in {"", "sub1", "sub2"} :
        Called("FindBySubOrCreate", u, k, {}, FindBySubOrCreate(data, rerr, u, k))
CallCreate == \E u \in Users : Called("Create", u, "", {}, Create(data, rerr, u))
CallSave == \E u \in Users : Called("Save", u, "", {}, Save(data, rerr, u))
CallRemove == \E id \in UserIDs : Called("Remove", NoUser, "", {id}, Remove(data, rerr, id))

\* Lines 186-188.
SetUserError ==
    \E e \in {Nil, FaultA, FaultB} :
        /\ rerr' = e
        /\ mcall' = [NoCall EXCEPT !.op = "SetUserError", !.err = e]
        /\ dataPre' = data
        /\ prevCreated' = NotCreated
        /\ UNCHANGED data

\* ================================================================
\* Concurrent callers of the in-memory repository: every method is a
\* sequence of SyncMap steps, and other callers' steps may come in between.
\* ================================================================
NumProcs == 2

Procs == 1..NumProcs
\* The credentials concurrent callers ask for.
Subs == {"sub1", "sub2"}
\* The users concurrent callers hand in: under every identifier, one that
\* holds sub1 only and one that holds both credentials.
Candidates == {u \in Users : "sub1" \in u.auths}

VARIABLES
    procs   \* per caller: where it is in its call, the call's arguments, what
            \* it returned, the callers whose Store under the same identifier
            \* had happened when its call read the map, whether it stored

concVars == <<procs>>

IdleProc == [pc |-> "idle", op |-> "none", u |-> NoUser, sub |-> "", res |-> NoUser, err |-> Nil,
             after |-> {}, wrote |-> FALSE]
IdleProcs == procs = [p \in Procs |-> IdleProc]

\* SyncMap.Load(key): the stored value, the nil user when there is none.
Load(d, k) == d[k]

\* SyncMap.Store(key, value).
Store(d, k, v) == [d EXCEPT ![k] = v]

\* The callers that had stored under identifier k.
Writers(k) == {q \in Procs : procs[q].wrote /\ procs[q].u.id = k}

\* Fault variant: Create goes on to Store whatever the map holds.
CreateCheck_NoLoad(d, e, u) ==
    IF e # Nil THEN [pc |-> "done", err |-> e]
    ELSE [pc |-> "loaded", err |-> Nil]

\* Lines 155-163: the fault check and the Load of Create.
CreateCheck(d, e, u) ==
    IF e # Nil THEN [pc |-> "done", err |-> e]
    ELSE IF Load(d, u.id) # NoUser THEN [pc |-> "done", err |-> ErrDuplicatedUser]
    ELSE [pc |-> "loaded", err |-> Nil]

\* Lines 154-159: a caller enters Create and reads the map.
CreateLoad ==
    \E p \in Procs, u \in Candidates :
        /\ procs[p].pc = "idle"
        /\ procs' = [procs EXCEPT ![p] =
                        [IdleProc EXCEPT !.pc = CreateCheck(data, rerr, u).pc, !.op = "Create", !.u = u,
                                         !.err = CreateCheck(data, rerr, u).err, !.after = Writers(u.id)]]
        /\ UNCHANGED memVars

\* Lines 160-165: the Store of Create, and its return.
CreateStore ==
    \E p \in Procs :
        /\ procs[p].pc = "loaded"
        /\ data' = Store(data, procs[p].u.id, procs[p].u)
        /\ procs' = [procs EXCEPT ![p].pc = "done", ![p].wrote = TRUE]
        /\ UNCHANGED <<rerr, mcall, dataPre, prevCreated>>

\* Lines 139-147, 151: a caller enters FindBySubOrCreate and scans the map.
FindBySubOrCreateScan ==
    \E p \in Procs, u \in Candidates, sub \in Subs :
        /\ procs[p].pc = "idle"
        /\ IF rerr # Nil
           THEN procs' = [procs EXCEPT ![p] =
                            [IdleProc EXCEPT !.pc = "done", !.op = "FindBySubOrCreate", !.u = u, !.sub = sub,
                                             !.err = rerr]]
           ELSE \E u2 \in Find(data, {k \in UserIDs : ContainAuth(data[k], sub)}) :
                   procs' = [procs EXCEPT ![p] =
                                [IdleProc EXCEPT !.pc = IF u2 # NoUser THEN "done" ELSE "scanned",
                                                 !.op = "FindBySubOrCreate", !.u = u, !.sub = sub,
                                                 !.res = u2, !.after = Writers(u.id)]]
        /\ UNCHANGED memVars

\* Lines 148-149: the Store of FindBySubOrCreate, and its return of u.
FindBySubOrCreateStore ==
    \E p \in Procs :
        /\ procs[p].pc = "scanned"
        /\ data' = Store(data, procs[p].u.id, procs[p].u)
        /\ procs' = [procs EXCEPT ![p].pc = "done", ![p].res = procs[p].u, ![p].wrote = TRUE]
        /\ UNCHANGED <<rerr, mcall, dataPre, prevCreated>>

\* ================================================================
\* Pagination (usecasex/pagination.go) over a heap of objects.
\* ================================================================
\* Number of changes the owners make to p and its clone.
MaxMutations == 3

\* The nil pointer; every other address is an index of `heap`.
Null == 0
\* What a cell holds: a Cursor (a string) or an int64.
CursorVal(c) == [str |-> c, int |-> 0]
IntVal(n) == [str |-> "", int |-> n]
CursorVals == {CursorVal("c1"), CursorVal("c2")}
IntVals == {IntVal(1), IntVal(2)}

VARIABLES
    heap,    \* the allocated objects, by address
    pPtr,    \* p: the source *Pagination
    cPtr,    \* clone: the *Pagination p.Clone() returned
    ppc,     \* "built" | "cloned"
    snapP,   \* everything reachable from p, as its owner last left it
    snapC,   \* everything reachable from clone, as its owner last left it
    muts     \* number of changes made to p or clone since the Clone call

pageVars == <<heap, pPtr, cPtr, ppc, snapP, snapC, muts>>

\* An optional value: <<>> (nil) or <<v>>.
Opt(S) == {<<>>} \cup {<<v>> : v \in S}
At(h, a) == [heap |-> h, ptr |-> a]

\* &v for a Cursor or an int64, nil for no value.
NewCell(h, opt) ==
    IF opt = <<>> THEN At(h, Null)
    ELSE At(Append(h, [t |-> "Cell", val |-> opt[1]]), Len(h) + 1)

\* Lines 7-12: a CursorPagination value placed on the heap.
NewCursorPagination(h, before, after, first, last) ==
    LET b == NewCell(h, before)
        a == NewCell(b.heap, after)
        f == NewCell(a.heap, first)
        l == NewCell(f.heap, last)
    IN  At(Append(l.heap, [t |-> "CursorPagination", Before |-> b.ptr, After |-> a.ptr,
                           First |-> f.ptr, Last |-> l.ptr]),
           Len(l.heap) + 1)

\* Lines 20-23: an OffsetPagination value placed on the heap.
NewOffsetPagination(h, offset, limit) ==
    At(Append(h, [t |-> "OffsetPagination", Offset |-> offset, Limit |-> limit]), Len(h) + 1)

\* Lines 31-34: &Pagination{Cursor: c, Offset: o}.
NewPagination(h, c, o) ==
    At(Append(h, [t |-> "Pagination", Cursor |-> c, Offset |-> o]), Len(h) + 1)

\* Lines 14-18: CursorPagination.Wrap().
CursorWrap(h, before, after, first, last) ==
    LET c == NewCursorPagination(h, before, after, first, last)
    IN  NewPagination(c.heap, c.ptr, Null)

\* Lines 25-29: OffsetPagination.Wrap().
OffsetWrap(h, offset, limit) ==
    LET o == NewOffsetPagination(h, offset, limit)
    IN  NewPagination(o.heap, Null, o.ptr)

\* The value behind a pointer to a Cursor or an int64 (<<>> for nil).
ViewCell(h, a) == IF a = Null THEN <<>> ELSE <<h[a].val>>

\* util.CloneRef(r): nil for nil, otherwise a new descriptor with r's field
\* values. Its body is not part of the sources at hand, and what it does with
\* the fields that are pointers is not known: both outcomes are kept, the new
\* descriptor holding the same pointers, or pointers to new copies of the
\* values.
CloneRef(h, a) ==
    IF a = Null THEN {At(h, Null)}
    ELSE IF h[a].t = "CursorPagination" THEN
        {At(Append(h, h[a]), Len(h) + 1),
         NewCursorPagination(h, ViewCell(h, h[a].Before), ViewCell(h, h[a].After),
                             ViewCell(h, h[a].First), ViewCell(h, h[a].Last))}
    ELSE {At(Append(h, h[a]), Len(h) + 1)}

\* Fault variant: the new Pagination shares the source's descriptors.
Clone_ShareDescriptors(h, p) ==
    IF p = Null THEN {At(h, Null)}
    ELSE {NewPagination(h, h[p].Cursor, h[p].Offset)}

\* Lines 36-45: Pagination.Clone().
Clone(h, p) ==
    IF p = Null THEN {At(h, Null)}
    ELSE UNION {{NewPagination(o.heap, c.ptr, o.ptr) : o \in CloneRef(c.heap, h[p].Offset)} :
                   c \in CloneRef(h, h[p].Cursor)}

\* Everything reachable from a pointer, as values (<<>> for nil).
ViewCursor(h, a) ==
    IF a = Null THEN <<>>
    ELSE <<[Before |-> ViewCell(h, h[a].Before), After |-> ViewCell(h, h[a].After),
            First |-> ViewCell(h, h[a].First), Last |-> ViewCell(h, h[a].Last)]>>
ViewOffset(h, a) == IF a = Null THEN <<>> ELSE <<[Offset |-> h[a].Offset, Limit |-> h[a].Limit]>>
View(h, a) ==
    IF a = Null THEN <<>>
    ELSE <<[Cursor |-> ViewCursor(h, h[a].Cursor), Offset |-> ViewOffset(h, h[a].Offset)]>>

\* The fields of a Pagination's descriptors as they are stored: pointers for
\* Before, After, First and Last, values for Offset and Limit.
Fields(h, a) ==
    IF a = Null THEN <<>>
    ELSE <<[Cursor |-> IF h[a].Cursor = Null THEN <<>> ELSE <<h[h[a].Cursor]>>,
            Offset |-> ViewOffset(h, h[a].Offset)]>>

\* What an owner remembers of its side: the stored fields and the values
\* reachable through them.
Snap(h, a) == [fields |-> Fields(h, a), vals |-> View(h, a)]

\* No Pagination exists (the other components' runs).
IdlePagination ==
    /\ heap = <<>>
    /\ pPtr = Null
    /\ cPtr = Null
    /\ ppc = "built"
    /\ snapP = Snap(<<>>, Null)
    /\ snapC = Snap(<<>>, Null)
    /\ muts = 0

\* A caller's p: nil, an empty Pagination, or a wrapped descriptor.
BuiltPagination ==
    /\ \E built \in {At(<<>>, Null), NewPagination(<<>>, Null, Null)}
                \cup {CursorWrap(<<>>, b, a, f, l) :
                         b \in Opt({CursorVal("c1")}), a \in Opt({CursorVal("c1")}),
                         f \in Opt({IntVal(1)}), l \in Opt({IntVal(1)})}
                \cup {OffsetWrap(<<>>, o, l) : o \in {0, 1}, l \in {1, 2}} :
          /\ heap = built.heap
          /\ pPtr = built.ptr
          /\ snapP = Snap(built.heap, built.ptr)
    /\ cPtr = Null
    /\ ppc = "built"
    /\ snapC = Snap(<<>>, Null)
    /\ muts = 0

\* clone := p.Clone()
DoClone ==
    /\ ppc = "built"
    /\ \E c \in Clone(heap, pPtr) :
          /\ heap' = c.heap
          /\ cPtr' = c.ptr
    /\ snapC' = Snap(heap', cPtr')
    /\ ppc' = "cloned"
    /\ UNCHANGED <<pPtr, snapP, muts>>

\* The owner of one side (p or clone) has changed what it reaches.
Mutated(side) ==
    /\ muts < MaxMutations
    /\ ppc' = ppc
    /\ muts' = muts + 1
    /\ UNCHANGED <<pPtr, cPtr>>
    /\ IF side = "p"
       THEN snapP' = Snap(heap', pPtr) /\ snapC' = snapC
       ELSE snapC' = Snap(heap', cPtr) /\ snapP' = snapP

Side(side) == IF side = "p" THEN pPtr ELSE cPtr

\* *x.Cursor.Before = v (or After, First, Last).
MutateCell ==
    /\ ppc = "cloned"
    /\ \E side \in {"p", "clone"}, fld \in {"Before", "After", "First", "Last"} :
        /\ Side(side) # Null
        /\ heap[Side(side)].Cursor # Null
        /\ heap[heap[Side(side)].Cursor][fld] # Null
        /\ \E v \in (IF fld \in {"Before", "After"} THEN CursorVals ELSE IntVals) :
              heap' = [heap EXCEPT ![heap[heap[Side(side)].Cursor][fld]].val = v]
        /\ Mutated(side)

\* x.Cursor.Before = nil (or After, First, Last).
ClearField ==
    /\ ppc = "cloned"
    /\ \E side \in {"p", "clone"}, fld \in {"Before", "After", "First", "Last"} :
        /\ Side(side) # Null
        /\ heap[Side(side)].Cursor # Null
        /\ heap[heap[Side(side)].Cursor][fld] # Null
        /\ heap' = [heap EXCEPT ![heap[Side(side)].Cursor][fld] = Null]
        /\ Mutated(side)

\* x.Offset.Offset = v or x.Offset.Limit = v.
MutateOffset ==
    /\ ppc = "cloned"
    /\ \E side \in {"p", "clone"}, fld \in {"Offset", "Limit"}, v \in {0, 1, 2} :
        /\ Side(side) # Null
        /\ heap[Side(side)].Offset # Null
        /\ heap' = [heap EXCEPT ![heap[Side(side)].Offset][fld] = v]
        /\ Mutated(side)

\* x.Cursor = nil or x.Offset = nil.
DropDescriptor ==
    /\ ppc = "cloned"
    /\ \E side \in {"p", "clone"}, fld \in {"Cursor", "Offset"} :
        /\ Side(side) # Null
        /\ heap[Side(side)][fld] # Null
        /\ heap' = [heap EXCEPT ![Side(side)][fld] = Null]
        /\ Mutated(side)

\* ================================================================
\* Specifications
\* ================================================================
allVars == <<collVars, memVars, pageVars, concVars>>

Next ==
    \/ FindOpen /\ UNCHANGED <<count, memVars, pageVars, concVars>>
    \/ FindLoop /\ UNCHANGED <<count, memVars, pageVars, concVars>>
    \/ Cancel /\ UNCHANGED <<count, memVars, pageVars, concVars>>
    \/ FindOne /\ UNCHANGED <<count, memVars, pageVars, concVars>>
    \/ SaveAll /\ UNCHANGED <<count, memVars, pageVars, concVars>>
    \/ RemoveOne /\ UNCHANGED <<count, memVars, pageVars, concVars>>
    \/ Count /\ UNCHANGED <<memVars, pageVars, concVars>>
    \/ RemoveAll /\ UNCHANGED <<memVars, pageVars, concVars>>
    \/ ReplaceOne /\ UNCHANGED <<memVars, pageVars, concVars>>
    \/ SaveOne /\ UNCHANGED <<memVars, pageVars, concVars>>
    \/ SetOne /\ UNCHANGED <<memVars, pageVars, concVars>>
    \/ UpdateMany /\ UNCHANGED <<memVars, pageVars, concVars>>
    \/ UpdateManyMany /\ UNCHANGED <<memVars, pageVars, concVars>>
    \/ Finish /\ count' = 0 /\ UNCHANGED <<memVars, pageVars, concVars>>

InitAll == Init /\ count = 0 /\ InitMemoryEmpty /\ IdlePagination /\ IdleProcs

\* The Collection facade under one caller.
Spec == InitAll /\ [][Next]_allVars

InitRepository == Init /\ count = 0 /\ InitMemory /\ IdlePagination /\ IdleProcs

NextMemory ==
    \/ CallFindByIDs /\ UNCHANGED <<collVars, pageVars, concVars>>
    \/ CallFindByID /\ UNCHANGED <<collVars, pageVars, concVars>>
    \/ CallFindBySub /\ UNCHANGED <<collVars, pageVars, concVars>>
    \/ CallFindByPasswordResetRequest /\ UNCHANGED <<collVars, pageVars, concVars>>
    \/ CallFindByEmail /\ UNCHANGED <<collVars, pageVars, concVars>>
    \/ CallFindByName /\ UNCHANGED <<collVars, pageVars, concVars>>
    \/ CallFindByNameOrEmail /\ UNCHANGED <<collVars, pageVars, concVars>>
    \/ CallFindByVerification /\ UNCHANGED <<collVars, pageVars, concVars>>
    \/ CallFindBySubOrCreate /\ UNCHANGED <<collVars, pageVars, concVars>>
    \/ CallCreate /\ UNCHANGED <<collVars, pageVars, concVars>>
    \/ CallSave /\ UNCHANGED <<collVars, pageVars, concVars>>
    \/ CallRemove /\ UNCHANGED <<collVars, pageVars, concVars>>
    \/ SetUserError /\ UNCHANGED <<collVars, pageVars, concVars>>

\* The in-memory repository under one caller.
SpecMemory == InitRepository /\ [][NextMemory]_allVars

InitPagination == Init /\ count = 0 /\ InitMemoryEmpty /\ BuiltPagination /\ IdleProcs

NextPagination ==
    \/ DoClone /\ UNCHANGED <<collVars, memVars, concVars>>
    \/ MutateCell /\ UNCHANGED <<collVars, memVars, concVars>>
    \/ ClearField /\ UNCHANGED <<collVars, memVars, concVars>>
    \/ MutateOffset /\ UNCHANGED <<collVars, memVars, concVars>>
    \/ DropDescriptor /\ UNCHANGED <<collVars, memVars, concVars>>

\* A Pagination, its clone, and their owners' mutations.
SpecPagination == InitPagination /\ [][NextPagination]_allVars

NextConcurrent ==
    \/ CreateLoad /\ UNCHANGED <<collVars, pageVars>>
    \/ CreateStore /\ UNCHANGED <<collVars, pageVars>>
    \/ FindBySubOrCreateScan /\ UNCHANGED <<collVars, pageVars>>
    \/ FindBySubOrCreateStore /\ UNCHANGED <<collVars, pageVars>>

\* The in-memory repository under concurrent callers, one call each.
SpecConcurrent == InitRepository /\ [][NextConcurrent]_allVars

\* ================================================================ claims
\* The ids a call's filter matched in the store as the call found it.
MatchesPre == {i \in args.filter : collPre[i] # Absent}
IsEOF(e) == ErrorsIs(e, EOF)
LastCall == calls[Len(calls)]
Classified(e) == e.kind \in {"rerror.ErrNotFound", "usecasex.ErrTransaction", "rerror.ErrInternal"}

\* C1: a Find whose cursor was exhausted normally after yielding N documents
\* has called Consume once per document, in driver order, and then
\* Consume(nil) exactly once as its last call; it returns success when that
\* terminal call returned nil or the end-of-stream sentinel, and the terminal
\* call's error unchanged otherwise. While Find iterates, the calls made so
\* far are the documents yielded so far, in order, none of them nil.
C1_FindExhaustion ==
    /\ (op = "Find" /\ pc = "loop") =>
          /\ Len(calls) = pos
          /\ \A k \in 1..Len(calls) : calls[k].doc = docs[k] /\ calls[k].res = Nil
    /\ (op = "Find" /\ pc = "done" /\ lastNext = "end") =>
          /\ Len(calls) = Len(docs) + 1
          /\ \A k \in 1..Len(docs) : calls[k].doc = docs[k] /\ calls[k].doc # NilDoc
          /\ LastCall.doc = NilDoc
          /\ ret = (IF LastCall.res = Nil \/ IsEOF(LastCall.res) THEN Nil ELSE LastCall.res)

\* Two documents were delivered and the terminal call's end-of-stream
\* sentinel was swallowed.
C1_Witness ==
    /\ op = "Find" /\ pc = "done" /\ lastNext = "end"
    /\ Len(docs) = 2 /\ Len(calls) = 3
    /\ LastCall.res = EOF /\ ret = Nil

\* C2: in Find, a Consume call (for a document or the terminal one) that
\* returns an error other than the end-of-stream sentinel is the last Consume
\* call, and Find returns exactly that error.
C2_FindConsumeError ==
    op = "Find" =>
        \A k \in 1..Len(calls) :
            (calls[k].res # Nil /\ ~IsEOF(calls[k].res)) =>
                /\ k = Len(calls)
                /\ pc = "done"
                /\ ret = calls[k].res

\* The first of two documents made the consumer fail: the second was never
\* delivered and no terminal call was made.
C2_Witness ==
    /\ op = "Find" /\ pc = "done"
    /\ Len(docs) = 2 /\ Len(calls) = 1
    /\ calls[1].res = ErrA /\ ret = ErrA

\* C3: in Find, a Consume call for a document that returns the end-of-stream
\* sentinel is the last Consume call and Find reports success.
C3_FindDocumentEOF ==
    op = "Find" =>
        \A k \in 1..Len(calls) :
            (calls[k].doc # NilDoc /\ IsEOF(calls[k].res)) =>
                /\ k = Len(calls)
                /\ pc = "done"
                /\ ret = Nil

\* C4: a Find that opened a cursor holds it open, never closed, while it
\* iterates, and has closed it exactly once when it returns, on every exit
\* path; a Find whose open step failed holds no cursor and closes nothing.
C4_FindCursorClosed ==
    /\ (op = "Find" /\ pc = "loop") => (cursor = "open" /\ closes = 0 /\ drv.err = Nil)
    /\ (op = "Find" /\ pc = "done") =>
          /\ cursor # "open"
          /\ drv.err = Nil => (cursor = "closed" /\ closes = 1)
          /\ drv.err # Nil => (cursor = "none" /\ closes = 0)

\* Find returned on a cancellation after one delivery, its cursor closed once.
C4_Witness ==
    /\ op = "Find" /\ pc = "done" /\ lastNext = "cancel"
    /\ Len(calls) = 1 /\ cursor = "closed" /\ closes = 1

\* C5: the cursor.Next step of Find that observes the cancellation of the
\* context makes no Consume call (no document, no terminal nil) and makes Find
\* return a classified, non-nil error; no step of a returned Find adds a
\* Consume call.
C5_FindCancellation ==
    [][/\ (op = "Find" /\ pc = "loop" /\ lastNext' = "cancel") =>
             /\ calls' = calls
             /\ pc' = "done"
             /\ ret' # Nil /\ Classified(ret')
       /\ (op = "Find" /\ pc = "done") => (calls' = calls \/ calls' = <<>>)]_vars

\* Cancellation was observed after one of two documents: the second was not
\* drained.
C5_Witness ==
    /\ op = "Find" /\ pc = "done" /\ lastNext = "cancel" /\ ctxDone
    /\ Len(docs) = 2 /\ pos = 1 /\ Len(calls) = 1
    /\ ret = ErrInternalBy(CtxCanceled)

\* C6: FindOne with no matching document fails with NotFound and never calls
\* the consumer; with a matching document it calls Consume exactly once, with
\* that document, returns success when Consume returned nil or the
\* end-of-stream sentinel and any other Consume error unchanged.
C6_FindOne ==
    (op = "FindOne" /\ pc = "done") =>
        /\ MatchesPre = {} => calls = <<>>
        /\ drv.err = ErrNoDocuments => (MatchesPre = {} /\ ret = ErrNotFound /\ calls = <<>>)
        /\ drv.err = Nil =>
              /\ Len(calls) = 1
              /\ calls[1].doc # NilDoc
              /\ calls[1].doc.id \in MatchesPre
              /\ calls[1].doc.body = collPre[calls[1].doc.id]
              /\ ret = (IF calls[1].res = Nil \/ IsEOF(calls[1].res) THEN Nil ELSE calls[1].res)

\* FindOne on a non-empty store with a filter that matches nothing.
C6_Witness ==
    /\ op = "FindOne" /\ pc = "done"
    /\ \E i \in Ids : coll[i] # Absent
    /\ MatchesPre = {} /\ drv.err = ErrNoDocuments /\ ret = ErrNotFound

\* C7: SaveAll with ids and updates both non-empty and of different lengths
\* returns an Internal error and hands no batch to BulkWrite; the store is
\* unchanged.
C7_SaveAllMismatch ==
    (/\ op = "SaveAll" /\ pc = "done"
     /\ Len(args.ids) # 0 /\ Len(args.updates) # 0
     /\ Len(args.ids) # Len(args.updates)) =>
        /\ ret.kind = "rerror.ErrInternal"
        /\ batches = <<>>
        /\ coll = collPre

\* Fewer updates than ids.
C7_Witness ==
    /\ op = "SaveAll" /\ pc = "done"
    /\ Len(args.ids) = 2 /\ Len(args.updates) = 1
    /\ ret = ErrInternalBy(ErrInvalidSaveArgs)

\* C8: SaveAll with ids empty or updates empty returns success and hands no
\* batch to BulkWrite.
C8_SaveAllEmpty ==
    (op = "SaveAll" /\ pc = "done" /\ (Len(args.ids) = 0 \/ Len(args.updates) = 0)) =>
        /\ ret = Nil
        /\ batches = <<>>
        /\ coll = collPre

\* Exactly one of the two slices is empty.
C8_Witness ==
    /\ op = "SaveAll" /\ pc = "done"
    /\ Len(args.ids) = 0 /\ Len(args.updates) = 2
    /\ ret = Nil

\* C9: SaveAll with non-empty ids and updates of equal length n hands
\* BulkWrite exactly one batch of n operations, the i-th a replace with upsert
\* filtered by ids[i] with replacement updates[i].
C9_SaveAllBatch ==
    (/\ op = "SaveAll" /\ pc = "done"
     /\ Len(args.ids) # 0 /\ Len(args.ids) = Len(args.updates)) =>
        /\ Len(batches) = 1
        /\ Len(batches[1]) = Len(args.ids)
        /\ \A i \in 1..Len(args.ids) :
              /\ batches[1][i].model = "ReplaceOne"
              /\ batches[1][i].upsert
              /\ batches[1][i].filter = args.ids[i]
              /\ batches[1][i].replacement = args.updates[i]

\* SaveAll(<<1, 2>>, <<u1, u2>>) succeeded.
C9_Witness ==
    /\ op = "SaveAll" /\ pc = "done" /\ ret = Nil
    /\ args.ids = <<1, 2>> /\ args.updates = <<"u1", "u2">>
    /\ Len(batches) = 1
    /\ coll[1] = "u1" /\ coll[2] = "u2"

\* C10: a RemoveOne whose delete matched no document fails with NotFound and
\* leaves the store unchanged; one whose delete removed exactly one document
\* returns no error; no RemoveOne removes more than one document.
C10_RemoveOne ==
    (op = "RemoveOne" /\ pc = "done") =>
        LET removed == {i \in Ids : collPre[i] # Absent /\ coll[i] = Absent}
        IN  /\ Cardinality(removed) <= 1
            /\ \A i \in Ids : coll[i] # Absent => coll[i] = collPre[i]
            /\ (drv.err = Nil /\ MatchesPre = {}) => (ret = ErrNotFound /\ coll = collPre)
            /\ (drv.err = Nil /\ Cardinality(removed) = 1) => ret = Nil
            /\ (drv.err = Nil /\ MatchesPre # {}) => (Cardinality(removed) = 1 /\ removed \subseteq MatchesPre)

\* RemoveOne on a non-empty store with a filter that matches nothing.
C10_Witness ==
    /\ op = "RemoveOne" /\ pc = "done"
    /\ \E i \in Ids : coll[i] # Absent
    /\ MatchesPre = {} /\ drv.err = Nil /\ ret = ErrNotFound
\* ---------------------------------------------------------------- in-memory repository
Stored(d) == {d[k] : k \in {k \in UserIDs : d[k] # NoUser}}
NoFault == rerr = Nil
SingleLookups == {"FindByID", "FindBySub", "FindByEmail", "FindByName", "FindByNameOrEmail",
                  "FindByVerification", "FindByPasswordResetRequest"}
KeyOps == {"FindBySub", "FindByEmail", "FindByName", "FindByNameOrEmail",
           "FindByVerification", "FindByPasswordResetRequest", "FindBySubOrCreate"}
\* The stored users the last call's argument designates.
Designated ==
    CASE mcall.op \in {"FindByID", "FindByIDs"} -> {v \in Stored(dataPre) : v.id \in mcall.ids}
      [] mcall.op \in {"FindBySub", "FindBySubOrCreate"} -> {v \in Stored(dataPre) : mcall.key \in v.auths}
      [] mcall.op = "FindByEmail" -> {v \in Stored(dataPre) : v.email = mcall.key}
      [] mcall.op = "FindByName" -> {v \in Stored(dataPre) : v.name = mcall.key}
      [] mcall.op = "FindByNameOrEmail" -> {v \in Stored(dataPre) : mcall.key \in {v.name, v.email}}
      [] mcall.op = "FindByVerification" -> {v \in Stored(dataPre) : v.verification = mcall.key}
      [] mcall.op = "FindByPasswordResetRequest" -> {v \in Stored(dataPre) : v.passwordReset = mcall.key}
      [] OTHER -> {}
NonEmptyArg == IF mcall.op \in {"FindByID", "FindByIDs"} THEN mcall.ids # {} ELSE mcall.key # ""

\* C11: with no fault injected, Create(u) with u.ID present fails with the
\* Duplicate error and leaves every stored value unchanged; Create(u) with
\* u.ID absent succeeds and stores u; Save(u) always succeeds, stores u, and
\* FindByID(u.ID) then returns u.
C11_CreateSave ==
    NoFault =>
        /\ (mcall.op = "Create" /\ dataPre[mcall.u.id] # NoUser) =>
              (mcall.err = ErrDuplicatedUser /\ data = dataPre)
        /\ (mcall.op = "Create" /\ dataPre[mcall.u.id] = NoUser) =>
              (mcall.err = Nil /\ data = [dataPre EXCEPT ![mcall.u.id] = mcall.u])
        /\ mcall.op = "Save" =>
              /\ mcall.err = Nil
              /\ data = [dataPre EXCEPT ![mcall.u.id] = mcall.u]
              /\ \A o \in FindByID(data, rerr, mcall.u.id) : o.res = mcall.u /\ o.err = Nil

\* A Create refused for an identifier that holds a different user.
C11_Witness ==
    /\ NoFault /\ mcall.op = "Create" /\ mcall.err = ErrDuplicatedUser
    /\ data[mcall.u.id] # mcall.u /\ data[mcall.u.id] # NoUser

\* C12 as claimed: FindBySubOrCreate(u, sub) with no stored user holding sub
\* stores u and returns u; the next FindBySubOrCreate(u', sub), with another
\* candidate, returns u and leaves the store unchanged (read here for a
\* non-empty sub only); the operation inserts only when no stored user holds
\* sub.
C12_Original ==
    (NoFault /\ mcall.op = "FindBySubOrCreate") =>
        /\ Designated = {} =>
              (mcall.err = Nil /\ mcall.res = mcall.u /\ data = [dataPre EXCEPT ![mcall.u.id] = mcall.u])
        /\ (/\ prevCreated # NotCreated /\ prevCreated.sub = mcall.key /\ mcall.u # prevCreated.u
            /\ mcall.key # "") =>
              (mcall.err = Nil /\ mcall.res = prevCreated.u /\ data = dataPre)
        /\ data # dataPre => Designated = {}

\* C12 (amended): as claimed when the first candidate u itself holds the
\* credential sub; a candidate that does not hold sub is stored as well, and
\* the next call then finds no holder either.
C12_FindBySubOrCreate ==
    (NoFault /\ mcall.op = "FindBySubOrCreate") =>
        /\ Designated = {} =>
              (mcall.err = Nil /\ mcall.res = mcall.u /\ data = [dataPre EXCEPT ![mcall.u.id] = mcall.u])
        /\ (/\ prevCreated # NotCreated /\ prevCreated.sub = mcall.key /\ mcall.u # prevCreated.u
            /\ ContainAuth(prevCreated.u, prevCreated.sub)) =>
              (mcall.err = Nil /\ mcall.res = prevCreated.u /\ data = dataPre)
        /\ Designated # {} => (mcall.err = Nil /\ mcall.res \in Designated /\ data = dataPre)

\* The second of two calls with the same sub and a candidate with another
\* identifier got the user the first call stored.
C12_Witness ==
    /\ NoFault /\ mcall.op = "FindBySubOrCreate"
    /\ prevCreated # NotCreated /\ prevCreated.sub = mcall.key
    /\ mcall.u.id # prevCreated.u.id /\ ContainAuth(mcall.u, mcall.key)
    /\ mcall.res = prevCreated.u /\ data[mcall.u.id] = NoUser

\* C13 as claimed: with no fault injected, every lookup (FindByIDs included)
\* with a non-empty argument that matches no stored user fails with NotFound
\* and leaves the store unchanged.
C13_Original ==
    (/\ NoFault /\ mcall.op \in SingleLookups \cup {"FindByIDs"}
     /\ NonEmptyArg /\ Designated = {}) =>
        (mcall.err = ErrNotFound /\ data = dataPre)

\* C13 (amended): that holds of the seven lookups that return one user;
\* FindByIDs with no match returns an empty list and no error, the store
\* unchanged.
C13_LookupNotFound ==
    /\ (/\ NoFault /\ mcall.op \in SingleLookups
        /\ NonEmptyArg /\ Designated = {}) =>
          (mcall.err = ErrNotFound /\ mcall.res = NoUser /\ data = dataPre)
    /\ (NoFault /\ mcall.op = "FindByIDs" /\ Designated = {}) =>
          (mcall.err = Nil /\ mcall.list = {} /\ data = dataPre)

\* FindByName of a name nobody bears, on a store that holds users.
C13_Witness ==
    /\ NoFault /\ mcall.op = "FindByName" /\ mcall.key = "zzz"
    /\ Stored(data) # {} /\ mcall.err = ErrNotFound

\* C14: with no fault injected, every operation that takes a string key
\* (FindBySubOrCreate included) fails with InvalidParams on the empty key
\* and leaves the store unchanged.
C14_EmptyKey ==
    (NoFault /\ mcall.op \in KeyOps /\ mcall.key = "") =>
        (mcall.err = ErrInvalidParams /\ mcall.res = NoUser /\ data = dataPre)

\* C15: while a fault e is set, every repository method returns exactly e and
\* no result, whatever its arguments, and leaves the store unchanged;
\* SetUserError itself never changes the store.
C15_InjectedFault ==
    /\ (rerr # Nil /\ mcall.op \notin {"none", "SetUserError"}) =>
          /\ mcall.err = rerr
          /\ mcall.res = NoUser /\ mcall.list = {}
          /\ data = dataPre
    /\ mcall.op = "SetUserError" => (data = dataPre /\ rerr = mcall.err)

\* FindBySub with the empty key under a fault, on a store that holds users:
\* the fault wins over the argument check.
C15_Witness ==
    /\ rerr = FaultA /\ mcall.op = "FindBySub" /\ mcall.key = ""
    /\ mcall.err = FaultA /\ Stored(data) # {}
\* ---------------------------------------------------------------- Pagination
\* C16 as stated: Clone of a nil pointer is nil; the clone of a non-nil p is
\* another Pagination that holds the same descriptors with the same values;
\* whatever the owner of one of the two changes through its Cursor (the
\* values Before, After, First and Last point to included) or its Offset
\* leaves everything reachable from the other as it was. It holds when
\* CloneRef copies the values behind the pointer fields and fails when it
\* keeps the pointers.
C16_CloneIndependent ==
    ppc = "cloned" =>
        /\ pPtr = Null => cPtr = Null
        /\ pPtr # Null => (cPtr # Null /\ cPtr # pPtr)
        /\ View(heap, pPtr) = snapP.vals
        /\ View(heap, cPtr) = snapC.vals
        /\ muts = 0 => View(heap, cPtr) = View(heap, pPtr)

\* C16, the part that does not depend on what CloneRef does with pointer
\* fields: Clone of nil is nil; the clone of a non-nil p is another
\* Pagination with descriptors of its own that hold the same values; setting
\* a field of a descriptor of one of the two (Before, After, First, Last,
\* Offset, Limit) or its Cursor or Offset leaves the fields of the other as
\* they were.
C16_DescriptorsIndependent ==
    ppc = "cloned" =>
        /\ pPtr = Null => cPtr = Null
        /\ pPtr # Null =>
              /\ cPtr # Null /\ cPtr # pPtr
              /\ heap[pPtr].Cursor # Null => heap[cPtr].Cursor # heap[pPtr].Cursor
              /\ heap[pPtr].Offset # Null => heap[cPtr].Offset # heap[pPtr].Offset
        /\ Fields(heap, pPtr) = snapP.fields
        /\ Fields(heap, cPtr) = snapC.fields
        /\ muts = 0 => View(heap, cPtr) = View(heap, pPtr)

\* clone.Cursor.Before was set to nil and p.Cursor.Before still points to its
\* value.
C16_Witness ==
    /\ ppc = "cloned" /\ pPtr # Null /\ cPtr # Null
    /\ heap[pPtr].Cursor # Null /\ heap[cPtr].Cursor # Null
    /\ heap[heap[pPtr].Cursor].Before # Null
    /\ heap[heap[cPtr].Cursor].Before = Null
\* ---------------------------------------------------------------- classification, UpdateManyMany
RawDriverErrors == {ErrNilDocument, ErrNoDocuments, DrvErr, DrvConflict, DrvUnacknowledged,
                    DrvEmptySlice, CtxCanceled}

\* C17: a Collection method never returns a raw driver error; a driver
\* failure reaches the caller as NotFound (the no-document sentinels of Find
\* and FindOne), as TransactionConflict when it carries the conflict marker,
\* and as Internal wrapping the cause otherwise; the only other errors
\* returned are those the Consumer returned.
C17_Classification ==
    pc = "done" =>
        /\ ret \notin RawDriverErrors
        /\ ret # Nil => \/ Classified(ret)
                        \/ op \in {"Find", "FindOne"} /\ calls # <<>> /\ ret = LastCall.res
        /\ drv.err # Nil =>
              ret = (IF drv.err = DrvConflict THEN ErrTransaction
                     ELSE IF drv.err \in {ErrNilDocument, ErrNoDocuments} THEN ErrNotFound
                     ELSE [kind |-> "rerror.ErrInternal", cause |-> drv.err.kind])
        /\ lastNext = "cancel" => ret = [kind |-> "rerror.ErrInternal", cause |-> CtxCanceled.kind]
        /\ lastNext = "err" =>
              ret \in {ErrTransaction, [kind |-> "rerror.ErrInternal", cause |-> DrvErr.kind]}

\* A conflict reported by the driver while deleting came back as
\* TransactionConflict.
C17_Witness ==
    /\ pc = "done" /\ op = "RemoveAll"
    /\ drv.err = DrvConflict /\ ret = ErrTransaction

\* C18: UpdateManyMany hands BulkWrite exactly one batch, of one update-many
\* operation per item in input order, the i-th with the item's filter, the
\* update {$set: item.Update}, and array filters exactly when the item has
\* some; the empty list gives one empty batch.
C18_UpdateManyManyBatch ==
    (op = "UpdateManyMany" /\ pc = "done") =>
        /\ Len(batches) = 1
        /\ Len(batches[1]) = Len(args.updates)
        /\ \A i \in 1..Len(args.updates) :
              /\ batches[1][i].model = "UpdateMany"
              /\ batches[1][i].filter = args.updates[i].Filter
              /\ batches[1][i].update = [set |-> args.updates[i].Update]
              /\ batches[1][i].hasArrayFilters <=> (Len(args.updates[i].ArrayFilters) > 0)
              /\ batches[1][i].hasArrayFilters =>
                    batches[1][i].arrayFilters = args.updates[i].ArrayFilters

\* Two items, the first with array filters and the second without.
C18_Witness ==
    /\ op = "UpdateManyMany" /\ pc = "done" /\ ret = Nil
    /\ Len(args.updates) = 2 /\ Len(batches) = 1
    /\ Len(args.updates[1].ArrayFilters) > 0 /\ batches[1][1].hasArrayFilters
    /\ Len(args.updates[2].ArrayFilters) = 0 /\ ~batches[1][2].hasArrayFilters
\* ---------------------------------------------------------------- concurrent callers
CreateDone(p) == procs[p].op = "Create" /\ procs[p].pc = "done"

\* C19 as stated: of the Create calls that carry one identifier at most one
\* returns success, in every interleaving.
C19_Original ==
    \A p, q \in Procs :
        (p # q /\ CreateDone(p) /\ CreateDone(q) /\ procs[p].u.id = procs[q].u.id) =>
            ~(procs[p].err = Nil /\ procs[q].err = Nil)

\* C19: a Create call whose Load step comes after another call's Store under
\* the same identifier fails with Duplicate, a failed Create call failed with
\* Duplicate and stored nothing, and a successful one stored; hence two Create
\* calls with one identifier both return success only when each one's Load
\* step came before the other's Store step.
C19_CreateRace ==
    /\ \A p \in Procs :
          CreateDone(p) =>
              /\ procs[p].after # {} => procs[p].err = ErrDuplicatedUser
              /\ procs[p].err # Nil => procs[p].err = ErrDuplicatedUser /\ ~procs[p].wrote
              /\ procs[p].err = Nil => procs[p].wrote /\ data[procs[p].u.id] # NoUser
    /\ \A p, q \in Procs :
          (/\ p # q /\ CreateDone(p) /\ CreateDone(q) /\ procs[p].u.id = procs[q].u.id
           /\ procs[p].err = Nil /\ procs[q].err = Nil) =>
              (p \notin procs[q].after /\ q \notin procs[p].after)

\* One Create stored, and another, reading the map afterwards, was refused.
C19_Witness ==
    \E p, q \in Procs :
        /\ p # q /\ CreateDone(p) /\ CreateDone(q) /\ procs[p].u.id = procs[q].u.id
        /\ procs[p].err = Nil /\ procs[q].err = ErrDuplicatedUser /\ procs[q].after = {p}
        /\ data[procs[p].u.id] = procs[p].u

\* C20 as stated: when every caller has finished a FindBySubOrCreate with the
\* same sub and a candidate of its own identifier holding sub, all of them
\* were handed the same user and at most one stored user holds sub. The
\* repository is taken to have been built with no user holding sub: every
\* stored holder of sub was stored by one of the calls.
C20_FindBySubOrCreateRace ==
    (/\ \A p \in Procs : procs[p].op = "FindBySubOrCreate" /\ procs[p].pc = "done"
     /\ \A p, q \in Procs : procs[p].sub = procs[q].sub
     /\ \A p, q \in Procs : p # q => procs[p].u.id # procs[q].u.id
     /\ \A p \in Procs : ContainAuth(procs[p].u, procs[p].sub)
     /\ \A k \in UserIDs : ContainAuth(data[k], procs[1].sub) =>
           \E p \in Procs : procs[p].wrote /\ procs[p].u = data[k]) =>
        /\ \A p, q \in Procs : procs[p].res = procs[q].res
        /\ Cardinality({k \in UserIDs : ContainAuth(data[k], procs[1].sub)}) <= 1
====
